---------------------------- MODULE Spec2Model ----------------------------
(* A model of the clinical assistant services of this repository:          *)
(*   app.py          the local corpus (clinical_data/), /reindex, /answer  *)
(*   ffm_flask2.py   the guidelines table, /ingest_text, /answer           *)
(* Texts are strings; a character is a string of length one.               *)
EXTENDS Integers, Sequences, FiniteSets, TLC

VARIABLES
    fs,          \* the files on disk: path -> content
    dirs,        \* the directories on disk
    libs,        \* which of the optional libraries pdfminer, docx import
    rpc,         \* app.py /reindex: position of the request
    frames,      \* app.py _collect_texts: the generators running, innermost last
    before,      \* the corpus that was live when the running rebuild started
    responses,   \* the last /reindex responses since the directory was changed
    it,          \* app.py build_prompt: the iterator of CORPUS.items()
    seen,        \* app.py build_prompt: the entries the loop has read
    live,        \* the corpora that were live while the served /answer ran
    probe,       \* a helper applied on its own: its input and its result
    guidelines,  \* ffm_flask2.py: the rows of the table public.guidelines
    resp,        \* ffm_flask2.py: the response to the last request
    found,       \* ffm_flask2.py answer: the rows _supa_search returned
    pick,        \* ffm_flask2.py _pick_sentences: cand, chosen and srcs
    CORPUS,      \* app.py: the dict {path: text}, in insertion order
    question,    \* app.py: the question of the /answer request being served
    q_tokens,    \* app.py build_prompt: re.findall(r"[a-z0-9]+", q.lower())
    scored,      \* app.py build_prompt: the list of (s, path, text[:4000])
    top,         \* app.py build_prompt: scored[:5] after the sort
    context,     \* app.py build_prompt: "blocks" or "nomatch" once built
    qpc          \* app.py /answer: position of the request

diskVars == <<fs, dirs, libs>>
reindexVars == <<rpc, frames, before, responses>>
queryVars == <<question, q_tokens, scored, top, context, qpc, it, seen, live>>
appVars == <<diskVars, reindexVars, queryVars, CORPUS>>
\* what the app.py server does not touch
others == <<probe, guidelines, resp, found, pick>>
ffmVars == <<guidelines, resp, found, pick>>
vars == <<fs, dirs, libs, rpc, frames, before, responses, it, seen, live, probe,
          guidelines, resp, found, pick,
          CORPUS, question, q_tokens, scored, top, context, qpc>>

---------------------------------------------------------------------------
(* Strings                                                                 *)

Min(a, b) == IF a < b THEN a ELSE b
Max(a, b) == IF a < b THEN b ELSE a

\* the character of s at position i (1-based)
Ch(s, i) == SubSeq(s, i, i)

\* s[:n]
Prefix(s, n) == SubSeq(s, 1, Min(Len(s), n))

\* s[i:] with i 1-based
From(s, i) == SubSeq(s, i, Len(s))

\* the printable ASCII characters in code point order: 32..95 and 97..126
AsciiLow == " !\"#$%&'()*+,-./0123456789:;<=>?@ABCDEFGHIJKLMNOPQRSTUVWXYZ[\\]^_"
AsciiHigh == "abcdefghijklmnopqrstuvwxyz{|}~"

\* the code point of a character ("\n" is 10)
Ord(c) == IF c = "\n" THEN 10
          ELSE IF \E i \in 1..Len(AsciiLow) : SubSeq(AsciiLow, i, i) = c
          THEN 31 + (CHOOSE i \in 1..Len(AsciiLow) : SubSeq(AsciiLow, i, i) = c)
          ELSE 96 + (CHOOSE i \in 1..Len(AsciiHigh) : SubSeq(AsciiHigh, i, i) = c)

UpperChars == "ABCDEFGHIJKLMNOPQRSTUVWXYZ"
LowerChars == "abcdefghijklmnopqrstuvwxyz"
Digits == "0123456789"

CharSet(chars) == {Ch(chars, i) : i \in 1..Len(chars)}
UpperSet == CharSet(UpperChars)
LowerSet == CharSet(LowerChars)
DigitSet == CharSet(Digits)

ToLower == [c \in UpperSet |-> Ch(LowerChars, CHOOSE i \in 1..26 : Ch(UpperChars, i) = c)]
LowerCh(c) == IF c \in UpperSet THEN ToLower[c] ELSE c

MinOf(S) == CHOOSE x \in S : \A y \in S : x <= y
MaxOf(S) == 0 - MinOf({0 - x : x \in S})

\* the first position from i on whose character is in chars (is not in chars),
\* Len(s) + 1 when there is none
FirstIn(s, chars, i) ==
    LET S == {k \in i..Len(s) : Ch(s, k) \in chars}
    IN  IF S = {} THEN Len(s) + 1 ELSE MinOf(S)
FirstNotIn(s, chars, i) ==
    LET S == {k \in i..Len(s) : Ch(s, k) \notin chars}
    IN  IF S = {} THEN Len(s) + 1 ELSE MinOf(S)

\* str.lower(): the text between upper-case letters is copied as it is
RECURSIVE LowerFrom(_, _)
LowerFrom(s, i) ==
    LET k == FirstIn(s, UpperSet, i)
    IN  IF k > Len(s) THEN From(s, i)
        ELSE SubSeq(s, i, k - 1) \o LowerCh(Ch(s, k)) \o LowerFrom(s, k + 1)
Lower(s) == LowerFrom(s, 1)

\* str.strip(): whitespace removed at both ends
Spaces == {" ", "\t", "\n", "\r"}
IsSpace(c) == c \in Spaces
Strip(s) ==
    LET S == {k \in 1..Len(s) : Ch(s, k) \notin Spaces}
    IN  IF S = {} THEN "" ELSE SubSeq(s, MinOf(S), MaxOf(S))

\* w in s
Contains(s, w) == \E i \in 1..(Len(s) - Len(w) + 1) : SubSeq(s, i, i + Len(w) - 1) = w

\* s.count(t): occurrences of t in s, left to right, not overlapping
RECURSIVE CountFrom(_, _, _)
CountFrom(s, t, i) ==
    LET S == {k \in i..(Len(s) - Len(t) + 1) : SubSeq(s, k, k + Len(t) - 1) = t}
    IN  IF S = {} THEN 0 ELSE 1 + CountFrom(s, t, MinOf(S) + Len(t))
Count(s, t) == CountFrom(s, t, 1)

\* a < b on str: by code points, a proper prefix first
RECURSIVE StrLessFrom(_, _, _)
StrLessFrom(a, b, i) ==
    IF i > Len(b) THEN FALSE
    ELSE IF i > Len(a) THEN TRUE
    ELSE IF Ch(a, i) = Ch(b, i) THEN StrLessFrom(a, b, i + 1)
    ELSE Ord(Ch(a, i)) < Ord(Ch(b, i))
StrLess(a, b) == StrLessFrom(a, b, 1)

\* the end (exclusive) of the run of characters of chars that starts at i
RunEnd(s, chars, i) == FirstNotIn(s, chars, i)

\* re.findall(r"[<chars>]+", s) from position i on
RECURSIVE FindRuns(_, _, _)
FindRuns(s, chars, i) ==
    LET b == FirstIn(s, chars, i)
    IN  IF b > Len(s) THEN <<>>
        ELSE <<SubSeq(s, b, RunEnd(s, chars, b) - 1)>>
             \o FindRuns(s, chars, RunEnd(s, chars, b))

RECURSIVE SumSeq(_)
SumSeq(xs) == IF xs = <<>> THEN 0 ELSE Head(xs) + SumSeq(Tail(xs))

Range(xs) == {xs[i] : i \in 1..Len(xs)}

---------------------------------------------------------------------------
(* app.py: scoring and ranking                                             *)

MinTokenLen == 3        \* _score_doc: if len(t) < 3: continue
HitWeight == 3          \* _score_doc: score += hits * 3
CueBonus == 5           \* _score_doc: score += 5
ScoreWindow == 8000     \* build_prompt: text[:8000]
KeepChars == 4000       \* build_prompt: text[:4000]
TopK == 5               \* build_prompt: scored[:5]

CueWords == {"dose", " mg", "mcg", " iv", "im ", "neb", "bolus",
             "criteria", "indication", "contraindication", "guideline"}

\* _score_doc(q_tokens, text)
TokenHits(tokens, tl) ==
    [i \in 1..Len(tokens) |->
        IF Len(tokens[i]) < MinTokenLen THEN 0 ELSE Count(tl, tokens[i]) * HitWeight]
HasCue(tl) == \E w \in CueWords : Contains(tl, w)
_score_doc(tokens, text) ==
    IF text = "" THEN 0
    ELSE LET tl == Lower(text)
         IN  SumSeq(TokenHits(tokens, tl)) + (IF HasCue(tl) THEN CueBonus ELSE 0)

\* build_prompt: q_tokens = re.findall(r"[a-z0-9]+", q.lower())
Tokenize(q) == FindRuns(Lower(Strip(q)), LowerSet \cup DigitSet, 1)

\* a < b on the tuples (s, path, text) of scored
TupleLess(a, b) ==
    IF a[1] # b[1] THEN a[1] < b[1]
    ELSE IF a[2] # b[2] THEN StrLess(a[2], b[2])
    ELSE StrLess(a[3], b[3])

\* list.sort(reverse=True): descending, equal elements keep their order
RECURSIVE InsertDesc(_, _)
InsertDesc(x, xs) ==
    IF xs = <<>> THEN <<x>>
    ELSE IF TupleLess(Head(xs), x) THEN <<x>> \o xs
    ELSE <<Head(xs)>> \o InsertDesc(x, Tail(xs))
RECURSIVE SortDesc(_)
SortDesc(xs) ==
    IF xs = <<>> THEN <<>>
    ELSE InsertDesc(xs[Len(xs)], SortDesc(SubSeq(xs, 1, Len(xs) - 1)))

\* build_prompt, the body of the loop: score one entry, keep it if s > 0
Keeps_mut(s) == s >= 0
Keeps(s) == s > 0
ScoreEntry(tokens, e, acc) ==
    LET s == _score_doc(tokens, Prefix(e.text, ScoreWindow))
    IN  IF Keeps(s) THEN Append(acc, <<s, e.path, Prefix(e.text, KeepChars)>>) ELSE acc

\* build_prompt, the whole loop over CORPUS.items()
RECURSIVE ScoreAll(_, _, _)
ScoreAll(tokens, corpus, acc) ==
    IF corpus = <<>> THEN acc
    ELSE ScoreAll(tokens, Tail(corpus), ScoreEntry(tokens, Head(corpus), acc))

\* build_prompt: the context is the blocks of top, or the "no local documents" text
ContextOf(t) == IF t # <<>> THEN "blocks" ELSE "nomatch"

\* the questions asked of /answer
Questions == {"Sepsis?", " is it ?"}

---------------------------------------------------------------------------
(* app.py: the clinical_data/ directory and build_corpus                   *)

DATA_DIR == "clinical_data"
UNZIP_DIR == "clinical_data/_unzipped"
TEXT_CACHE == "clinical_data/_text_cache"

\* the position of the last c in s, 0 if there is none (str.rfind, 1-based)
RECURSIVE RFind(_, _, _)
RFind(s, c, i) ==
    IF i = 0 THEN 0 ELSE IF Ch(s, i) = c THEN i ELSE RFind(s, c, i - 1)

\* pathlib: Path.name, Path.parent, Path.suffix, Path.stem
Name(p) == From(p, RFind(p, "/", Len(p)) + 1)
Parent(p) == SubSeq(p, 1, RFind(p, "/", Len(p)) - 1)
DotOf(n) == RFind(n, ".", Len(n))
Suffix(p) ==
    LET n == Name(p)
        d == DotOf(n)
    IN  IF 1 < d /\ d < Len(n) THEN From(n, d) ELSE ""
Stem(p) ==
    LET n == Name(p)
        d == DotOf(n)
    IN  IF 1 < d /\ d < Len(n) THEN SubSeq(n, 1, d - 1) ELSE n
Join(d, n) == d \o "/" \o n

\* The content of a file. kind says what the bytes are: "text" (text holds what
\* decoding them yields), "pdf" or "docx" (text holds what extraction yields),
\* "zip" (members holds the archived text files, name -> text), "bad" (bytes
\* that no extractor accepts), "locked" (a file whose bytes cannot be read).
TextFile(t) == [kind |-> "text", text |-> t, members |-> {}]
DocFile(k, t) == [kind |-> k, text |-> t, members |-> {}]
ZipFile(m) == [kind |-> "zip", text |-> "", members |-> m]
BadFile == [kind |-> "bad", text |-> "", members |-> {}]
LockedFile == [kind |-> "locked", text |-> "", members |-> {}]

\* the files a user may drop into clinical_data/
UserFiles ==
    [p \in {"clinical_data/a.txt", "clinical_data/sub/b.PDF", "clinical_data/c.docx",
            "clinical_data/z.zip", "clinical_data/sub/l.md", "clinical_data/n.csv"} |->
        CASE p = "clinical_data/a.txt" -> TextFile("sepsis")
          [] p = "clinical_data/sub/b.PDF" -> DocFile("pdf", "Sepsis bolus")
          [] p = "clinical_data/c.docx" -> BadFile
          [] p = "clinical_data/z.zip" -> ZipFile({<<"d.md", " \n">>})
          [] p = "clinical_data/sub/l.md" -> LockedFile
          [] p = "clinical_data/n.csv" -> TextFile("dose")]

\* how many files the user drops
MaxFiles == 2
UserPaths(files) == DOMAIN files \cap DOMAIN UserFiles

\* f with key k set to v, k added when it is new
Put(f, k, v) == [x \in DOMAIN f \cup {k} |-> IF x = k THEN v ELSE f[x]]

\* ensure_dirs()
EnsureDirs(ds) == ds \cup {DATA_DIR, UNZIP_DIR, TEXT_CACHE}

\* _read_text_file(p): the text, when the bytes can be read
CanRead(files, p) == files[p].kind # "locked"
ReadText(files, p) == IF files[p].kind = "text" THEN files[p].text ELSE ""

\* _pdf_to_txt / _docx_to_txt: the text written to TEXT_CACHE/<stem>.txt
Extracted(files, p, k) == IF files[p].kind = k THEN files[p].text ELSE ""
CachePath(p) == Join(TEXT_CACHE, Stem(p) \o ".txt")

\* _maybe_unzip(p): the files and directories on disk afterwards
UnzipTarget(p) == Join(UNZIP_DIR, Stem(p))
RECURSIVE PutAll(_, _, _)
PutAll(files, d, ms) ==
    IF ms = {} THEN files
    ELSE LET m == CHOOSE x \in ms : TRUE
         IN  PutAll(Put(files, Join(d, m[1]), TextFile(m[2])), d, ms \ {m})
UnzipFiles(files, ds, p) ==
    IF UnzipTarget(p) \notin ds /\ files[p].kind = "zip"
    THEN PutAll(files, UnzipTarget(p), files[p].members)
    ELSE files
UnzipDirs(ds, p) == ds \cup {UnzipTarget(p)}

\* CORPUS[str(fp)] = text
RECURSIVE IndexOfPath(_, _, _)
IndexOfPath(corpus, path, i) ==
    IF i > Len(corpus) THEN 0
    ELSE IF corpus[i].path = path THEN i ELSE IndexOfPath(corpus, path, i + 1)
SetItem(corpus, path, text) ==
    IF IndexOfPath(corpus, path, 1) = 0
    THEN Append(corpus, [path |-> path, text |-> text])
    ELSE [corpus EXCEPT ![IndexOfPath(corpus, path, 1)].text = text]

\* build_corpus: if text and text.strip(): CORPUS[str(fp)] = text
Indexable(text) == text # "" /\ Strip(text) # ""
Store(corpus, path, text) ==
    IF Indexable(text) THEN SetItem(corpus, path, text) ELSE corpus

\* the dict as a mapping, without its order
AsSet(corpus) == {<<corpus[i].path, corpus[i].text>> : i \in 1..Len(corpus)}

\* all orders of a set of at most three directories (os.scandir gives any)
Orders(S) == {o \in [1..Cardinality(S) -> S] : \A i, j \in 1..Cardinality(S) : o[i] = o[j] => i = j}

\* a generator of _collect_texts(root): the directories rglob has still to
\* visit, and the entries of the directory it is listing
NewFrame(root) == [stack |-> <<root>>, files |-> {}]
Depth == Len(frames)
Cur == frames[Len(frames)]
SetCur(f) == [frames EXCEPT ![Len(frames)] = f]

QueryIdle ==
    /\ question = "" /\ q_tokens = <<>> /\ scored = <<>> /\ top = <<>>
    /\ context = "" /\ qpc = "idle"
    /\ it = [pos |-> 0, used |-> 0] /\ seen = <<>> /\ live = {}

DiskIdle == fs = <<>> /\ dirs = EnsureDirs({}) /\ libs = {}
ReindexIdle == rpc = "idle" /\ frames = <<>> /\ before = <<>> /\ responses = <<>>
ProbeIdle == probe = [pc |-> "off"]
NoPick == [state |-> "none", cand |-> <<>>, sorted |-> <<>>, cats |-> <<>>,
           chosen |-> <<>>, srcs |-> <<>>]
FfmIdle == guidelines = <<>> /\ resp = [code |-> 0] /\ found = <<>> /\ pick = NoPick

\* a user drops a file into clinical_data/ while no rebuild runs
AddFile(p) ==
    /\ rpc = "idle"
    /\ p \notin DOMAIN fs
    /\ Cardinality(UserPaths(fs)) < MaxFiles
    /\ fs' = Put(fs, p, UserFiles[p])
    /\ dirs' = dirs \cup {Parent(p)}
    /\ responses' = <<>>
    /\ UNCHANGED <<others, libs, rpc, frames, before, CORPUS, queryVars>>

\* reindex() -> build_corpus(): ensure_dirs(); CORPUS.clear(); the generator starts
ReindexStart ==
    /\ rpc = "idle"
    /\ dirs' = EnsureDirs(dirs)
    /\ before' = CORPUS
    /\ CORPUS' = <<>>
    /\ frames' = <<NewFrame(DATA_DIR)>>
    /\ rpc' = "walk"
    /\ UNCHANGED <<others, fs, libs, responses, queryVars>>

\* root.rglob("*") reaches the next directory: its entries are listed, its
\* subdirectories are visited next, in the order the file system gives them
ListDir ==
    /\ rpc = "walk" /\ Cur.files = {} /\ Cur.stack # <<>>
    /\ \E o \in Orders({d \in dirs : Parent(d) = Head(Cur.stack)}) :
         frames' = SetCur([stack |-> o \o Tail(Cur.stack),
                           files |-> {p \in DOMAIN fs : Parent(p) = Head(Cur.stack)}])
    /\ UNCHANGED <<others, diskVars, rpc, before, responses, CORPUS, queryVars>>

Rest(p) == SetCur([Cur EXCEPT !.files = Cur.files \ {p}])

\* _collect_texts, ext in (".md", ".txt"): the file is read and stored
TakeText(p) ==
    /\ rpc = "walk" /\ p \in Cur.files
    /\ Lower(Suffix(p)) \in {".md", ".txt"}
    /\ CanRead(fs, p)
    /\ CORPUS' = Store(CORPUS, p, ReadText(fs, p))
    /\ frames' = Rest(p)
    /\ UNCHANGED <<others, diskVars, rpc, before, responses, queryVars>>

\* _collect_texts, ext in (".md", ".txt"): read_bytes() raises, build_corpus is
\* left by the exception and the request fails
TakeTextFails(p) ==
    /\ rpc = "walk" /\ p \in Cur.files
    /\ Lower(Suffix(p)) \in {".md", ".txt"}
    /\ ~CanRead(fs, p)
    /\ rpc' = "failed"
    /\ frames' = <<>>
    /\ UNCHANGED <<others, diskVars, before, responses, CORPUS, queryVars>>

\* _collect_texts, ext == ".pdf" / ".docx": converted into the text cache, when
\* the library imports, and the cached text is read and stored under the path
TakeDoc(p, ext, kind, lib) ==
    /\ rpc = "walk" /\ p \in Cur.files
    /\ Lower(Suffix(p)) = ext
    /\ IF lib \in libs
       THEN /\ fs' = Put(fs, CachePath(p), TextFile(Extracted(fs, p, kind)))
            /\ CORPUS' = Store(CORPUS, p, ReadText(fs', CachePath(p)))
       ELSE UNCHANGED <<others, fs, CORPUS>>
    /\ frames' = Rest(p)
    /\ UNCHANGED <<others, dirs, libs, rpc, before, responses, queryVars>>

\* _collect_texts, ext == ".zip": unpacked once, then walked by a nested generator
TakeZip(p) ==
    /\ rpc = "walk" /\ p \in Cur.files
    /\ Lower(Suffix(p)) = ".zip"
    /\ fs' = UnzipFiles(fs, dirs, p)
    /\ dirs' = UnzipDirs(dirs, p)
    /\ IF UnzipTarget(p) \in dirs \/ fs[p].kind = "zip"
       THEN frames' = Append(Rest(p), NewFrame(UnzipTarget(p)))
       ELSE frames' = Rest(p)
    /\ UNCHANGED <<others, libs, rpc, before, responses, CORPUS, queryVars>>

\* _collect_texts: any other file is passed over
SkipFile(p) ==
    /\ rpc = "walk" /\ p \in Cur.files
    /\ Lower(Suffix(p)) \notin {".md", ".txt", ".pdf", ".docx", ".zip"}
    /\ frames' = Rest(p)
    /\ UNCHANGED <<others, diskVars, rpc, before, responses, CORPUS, queryVars>>

\* a generator is exhausted; with the outermost one build_corpus returns
EndWalk ==
    /\ rpc = "walk" /\ Cur.files = {} /\ Cur.stack = <<>>
    /\ frames' = SubSeq(frames, 1, Len(frames) - 1)
    /\ rpc' = IF Len(frames) = 1 THEN "built" ELSE "walk"
    /\ live' = IF Len(frames) = 1 /\ qpc = "iter" THEN live \cup {AsSet(CORPUS)} ELSE live
    /\ UNCHANGED <<others, diskVars, before, responses, CORPUS,
                   question, q_tokens, scored, top, context, qpc, it, seen>>

\* reindex(): return jsonify({"ok": True, "files_indexed": len(CORPUS)})
Response(corpus) == [files_indexed |-> Len(corpus), corpus |-> AsSet(corpus)]
LastTwo(rs) == IF Len(rs) > 2 THEN SubSeq(rs, Len(rs) - 1, Len(rs)) ELSE rs
ReindexReturns ==
    /\ rpc = "built"
    /\ responses' = LastTwo(Append(responses, Response(CORPUS)))
    /\ rpc' = "idle"
    /\ UNCHANGED <<others, diskVars, frames, before, CORPUS, queryVars>>

\* reindex(): the exception of build_corpus ends the request with an error
ReindexFails ==
    /\ rpc = "failed"
    /\ responses' = <<>>
    /\ rpc' = "idle"
    /\ UNCHANGED <<others, diskVars, frames, before, CORPUS, queryVars>>

\* answer() -> build_prompt(q): the tokens, and the loop over CORPUS.items() starts
AnswerStart(q) ==
    /\ qpc \in {"idle", "done", "error"}
    /\ Strip(q) # ""
    /\ question' = Strip(q)
    /\ q_tokens' = Tokenize(q)
    /\ scored' = <<>> /\ top' = <<>> /\ context' = ""
    /\ it' = [pos |-> 0, used |-> Len(CORPUS)]
    /\ seen' = <<>>
    /\ live' = {AsSet(IF rpc = "walk" THEN before ELSE CORPUS)}
    /\ qpc' = "iter"
    /\ UNCHANGED <<others, diskVars, reindexVars, CORPUS>>

\* build_prompt: the loop takes the next item of the dict and scores it
LoopNext ==
    /\ qpc = "iter"
    /\ it.used = Len(CORPUS) /\ it.pos < Len(CORPUS)
    /\ scored' = ScoreEntry(q_tokens, CORPUS[it.pos + 1], scored)
    /\ seen' = Append(seen, CORPUS[it.pos + 1])
    /\ it' = [it EXCEPT !.pos = it.pos + 1]
    /\ UNCHANGED <<others, diskVars, reindexVars, CORPUS, question, q_tokens, top, context, qpc, live>>

\* build_prompt: the dict changed size while the loop ran: RuntimeError
LoopRaises ==
    /\ qpc = "iter"
    /\ it.used # Len(CORPUS)
    /\ qpc' = "error"
    /\ UNCHANGED <<others, diskVars, reindexVars, CORPUS, question, q_tokens, scored, top, context,
                   it, seen, live>>

\* build_prompt: the loop is over: scored.sort(reverse=True); top = scored[:5]
LoopEnds ==
    /\ qpc = "iter"
    /\ it.used = Len(CORPUS) /\ it.pos >= Len(CORPUS)
    /\ scored' = SortDesc(scored)
    /\ top' = SubSeq(scored', 1, Min(Len(scored'), TopK))
    /\ context' = ContextOf(top')
    /\ qpc' = "done"
    /\ UNCHANGED <<others, diskVars, reindexVars, CORPUS, question, q_tokens, it, seen, live>>

Init ==
    /\ fs = <<>>
    /\ dirs = EnsureDirs({})
    /\ libs \in {{}, {"pdfminer", "docx"}}
    /\ CORPUS = <<>>
    /\ ReindexIdle /\ QueryIdle /\ ProbeIdle /\ FfmIdle

Next ==
    \/ \E p \in DOMAIN UserFiles : AddFile(p)
    \/ ReindexStart
    \/ ListDir
    \/ \E p \in DOMAIN fs : TakeText(p)
    \/ \E p \in DOMAIN fs : TakeTextFails(p)
    \/ \E p \in DOMAIN fs : TakeDoc(p, ".pdf", "pdf", "pdfminer")
    \/ \E p \in DOMAIN fs : TakeDoc(p, ".docx", "docx", "docx")
    \/ \E p \in DOMAIN fs : TakeZip(p)
    \/ \E p \in DOMAIN fs : SkipFile(p)
    \/ EndWalk
    \/ ReindexReturns
    \/ ReindexFails
    \/ AnswerStart("Sepsis?")
    \/ LoopNext
    \/ LoopRaises
    \/ LoopEnds

Spec == Init /\ [][Next]_vars

---------------------------------------------------------------------------
(* app.py: /answer served against a corpus that no reindex is changing      *)

MaxDocs == 6

\* str(fp) of files under clinical_data/, in ascending order
RankPaths == <<"clinical_data/a.txt", "clinical_data/b.md", "clinical_data/c.txt",
               "clinical_data/d.md", "clinical_data/e.txt", "clinical_data/f.md",
               "clinical_data/g.txt", "clinical_data/h.md">>

RankTexts == {"Sepsis bolus", "sepsis", "rash"}

\* the corpus build_corpus left: n files, found in ascending or descending order
RankInit ==
    /\ \E n \in 0..Min(MaxDocs, Len(RankPaths)), asc \in BOOLEAN :
         \E txt \in [1..n -> RankTexts] :
            CORPUS = [i \in 1..n |->
                        [path |-> RankPaths[IF asc THEN i ELSE n + 1 - i],
                         text |-> txt[i]]]
    /\ QueryIdle
    /\ DiskIdle /\ ReindexIdle /\ ProbeIdle /\ FfmIdle

\* answer() with build_prompt(q), up to the context it builds
Answer(q) ==
    /\ qpc = "idle"
    /\ Strip(q) # ""
    /\ question' = Strip(q)
    /\ q_tokens' = Tokenize(q)
    /\ scored' = SortDesc(ScoreAll(q_tokens', CORPUS, <<>>))
    /\ top' = SubSeq(scored', 1, Min(Len(scored'), TopK))
    /\ context' = ContextOf(top')
    /\ qpc' = "done"
    /\ UNCHANGED <<others, CORPUS, it, seen, live, diskVars, reindexVars>>

RankNext == \E q \in Questions : Answer(q)

SpecRank == RankInit /\ [][RankNext]_vars

---------------------------------------------------------------------------
(* ffm_flask2.py: the regular expressions and the sentence helpers          *)

\* \w of the re module, and \b between the characters i and i + 1 of s
IsWordCh(c) == c \in LowerSet \/ c \in UpperSet \/ c \in DigitSet \/ c = "_"
WordAt(s, i) == i >= 1 /\ i <= Len(s) /\ IsWordCh(Ch(s, i))
Boundary(s, i) == WordAt(s, i) # WordAt(s, i + 1)

\* s has w at i
HasAt(s, w, i) == i + Len(w) - 1 <= Len(s) /\ SubSeq(s, i, i + Len(w) - 1) = w

\* re.compile(r"\b(w1|w2|...)\b").search(s)
SearchWords(s, words) ==
    \E i \in 1..Len(s) :
        /\ Boundary(s, i - 1)
        /\ \E w \in words : HasAt(s, w, i) /\ Boundary(s, i + Len(w) - 1)

\* _IMMEDIATE_RE, _CRITERIA_RE, _CAUSES_RE, _COMP_RE, _FOLLOW_RE, _ROUTE_RE
\* on lower-cased text: the alternatives, optional parts written out
ImmediateWords ==
    {"first" \o c \o "line" : c \in {"", "-"} \cup Spaces} \cup
    {"immediate", "stat", "urgent", "airway", "breathing", "circulation", "resus", "abcde", "adrenaline",
     "epinephrine", "calcium", "insulin", "dextrose", "hyperton", "3%", "magnesium",
     "ceftriaxone", "piperacillin", "tazobactam", "vancomycin", "bolus", "defibrill"}
CriteriaWords ==
    {"definition", "criteria", "diagnos", "meets", "sign", "signs", "symptom", "symptoms"}
CausesWords == {"cause", "causes", "trigger", "triggers", "aetiolog", "etiolog", "risk"}
CompWords == {"complication", "shock", "arrhythm", "arrest", "oedema", "edema"}
FollowWords ==
    {"monitor", "observe", "repeat", "titrate", "admit", "review", "escalate",
     "red flag", "red flags", "disposition", "reassess", "ecg"}
RouteWords == {"iv", "im", "po", "neb", "infus", "bolus"}
DoseUnits == {"mcg", "mg", "g", "ml", "%"}

\* the ends j of the runs of digits s[i..j], every one the greedy \d+ can stop at
DigitEnds(s, i) == {j \in i..Len(s) : \A k \in i..j : Ch(s, k) \in DigitSet}

\* the positions a match of \d+(\.\d+)? that starts at i can end at
NumberEnds(s, i) ==
    DigitEnds(s, i) \cup
    UNION {IF HasAt(s, ".", j + 1) THEN DigitEnds(s, j + 2) ELSE {} : j \in DigitEnds(s, i)}

\* _DOSE_RE.search(s): \b(\d+(\.\d+)?)\s?(mcg|mg|g|mL|ml|%)\b, ignoring case
SearchDose(s) ==
    \E i \in 1..Len(s) :
        /\ Boundary(s, i - 1)
        /\ \E j \in NumberEnds(s, i) :
              \E k \in {j + 1} \cup (IF j + 1 <= Len(s) /\ IsSpace(Ch(s, j + 1))
                                    THEN {j + 2} ELSE {}) :
                 \E u \in DoseUnits : HasAt(s, u, k) /\ Boundary(s, k + Len(u) - 1)

\* _categorise(s)
_categorise(s) ==
    LET s2 == Lower(s)
    IN  IF SearchWords(s2, ImmediateWords) \/ SearchDose(s2) THEN "Immediate"
        ELSE IF SearchWords(s2, CriteriaWords) THEN "Definition/Criteria"
        ELSE IF SearchWords(s2, CausesWords) \/ SearchWords(s2, CompWords)
             THEN "Causes/Complications"
        ELSE IF SearchWords(s2, FollowWords) THEN "Ongoing"
        ELSE "Definition/Criteria"

Categories == {"Definition/Criteria", "Causes/Complications", "Immediate", "Ongoing"}

\* _sentences: re.sub(r"\r\n?", "\n", txt)
RECURSIVE NormNewlines(_, _)
NormNewlines(s, i) ==
    LET k == FirstIn(s, {"\r"}, i)
    IN  IF k > Len(s) THEN From(s, i)
        ELSE SubSeq(s, i, k - 1) \o "\n"
             \o NormNewlines(s, IF HasAt(s, "\n", k + 1) THEN k + 2 ELSE k + 1)

\* _sentences: re.sub(r"[ \t]+", " ", t)
RECURSIVE SquashBlanks(_, _)
SquashBlanks(s, i) ==
    LET k == FirstIn(s, {" ", "\t"}, i)
    IN  IF k > Len(s) THEN From(s, i)
        ELSE SubSeq(s, i, k - 1) \o " " \o SquashBlanks(s, RunEnd(s, {" ", "\t"}, k))

\* str.split(sep) for a separator of one character, from position i on
RECURSIVE SplitOn(_, _, _)
SplitOn(s, sep, i) ==
    LET j == FirstIn(s, {sep}, i)
    IN  IF j > Len(s) THEN <<SubSeq(s, i, Len(s))>>
        ELSE <<SubSeq(s, i, j - 1)>> \o SplitOn(s, sep, j + 1)

\* re.split(r"(?<=[\.\?\!])\s+", ln): the pieces of ln from position b on; a
\* separator is a run of whitespace that follows one of . ? !
RECURSIVE SplitSentences(_, _)
SplitSentences(ln, b) ==
    LET S == {i \in Max(b, 2)..Len(ln) :
                 IsSpace(Ch(ln, i)) /\ Ch(ln, i - 1) \in {".", "?", "!"}}
    IN  IF S = {} THEN <<SubSeq(ln, b, Len(ln))>>
        ELSE <<SubSeq(ln, b, MinOf(S) - 1)>>
             \o SplitSentences(ln, RunEnd(ln, Spaces, MinOf(S)))

\* [f(x) for x in xs if x.strip()] with f = str.strip
RECURSIVE StripKeep(_)
StripKeep(xs) ==
    IF xs = <<>> THEN <<>>
    ELSE IF Strip(Head(xs)) # "" THEN <<Strip(Head(xs))>> \o StripKeep(Tail(xs))
    ELSE StripKeep(Tail(xs))

\* re.match(r"^[-•\d\)\(•]\s", ln): a bullet line; the texts here are ASCII, so
\* the bullet sign of the character class never occurs in them
BulletChars == {"-", ")", "("} \cup DigitSet
IsBullet(ln) == Len(ln) >= 2 /\ Ch(ln, 1) \in BulletChars /\ IsSpace(Ch(ln, 2))

\* _sentences: the pieces of the lines, before the pieces are clipped
RECURSIVE PiecesOf(_)
PiecesOf(lines) ==
    IF lines = <<>> THEN <<>>
    ELSE (IF IsBullet(Head(lines)) THEN <<Head(lines)>>
          ELSE StripKeep(SplitSentences(Head(lines), 1)))
         \o PiecesOf(Tail(lines))
Lines(txt) == StripKeep(SplitOn(SquashBlanks(NormNewlines(txt, 1), 1), "\n", 1))
Pieces(txt) == IF txt = "" THEN <<>> ELSE PiecesOf(Lines(txt))

MinPiece == 10
MaxPiece == 500

\* _sentences: return [s[:500] for s in out if 10 <= len(s) <= 500]
KeepsPiece(s) == MinPiece <= Len(s) /\ Len(s) <= MaxPiece
RECURSIVE Clip(_)
Clip(out) ==
    IF out = <<>> THEN <<>>
    ELSE IF KeepsPiece(Head(out)) THEN <<Prefix(Head(out), MaxPiece)>> \o Clip(Tail(out))
    ELSE Clip(Tail(out))

\* _sentences(txt)
_sentences(txt) == Clip(Pieces(txt))

---------------------------------------------------------------------------
(* ffm_flask2.py: scoring, selection, search and the routes                 *)

\* the module binds _ROUTE_RE; _score_sentence reads the name __ROUTE_RE
BoundNames == {"_IMMEDIATE_RE", "_DOSE_RE", "_ROUTE_RE", "_CRITERIA_RE", "_CAUSES_RE",
               "_COMP_RE", "_FOLLOW_RE"}
NameError == "NameError"

ImmediatePoints == 8
DosePoints == 4
RoutePoints == 3
BulletPoints == 1
LengthPoints == 1
InformativeMin == 80
InformativeMax == 240

\* s.strip().startswith(("-", "•")), on ASCII texts
StartsBullet(s) == Strip(s) # "" /\ Ch(Strip(s), 1) = "-"

\* _score_sentence(s): the score, or the NameError line 78 ends in
_score_sentence(s) ==
    LET s2 == Lower(s)
    IN  IF "__ROUTE_RE" \notin BoundNames THEN NameError
        ELSE (IF SearchWords(s2, ImmediateWords) THEN ImmediatePoints ELSE 0)
             + (IF SearchDose(s2) THEN DosePoints ELSE 0)
             + (IF SearchWords(s2, RouteWords) THEN RoutePoints ELSE 0)
             + (IF StartsBullet(s) THEN BulletPoints ELSE 0)
             + (IF InformativeMin <= Len(s) /\ Len(s) <= InformativeMax
                THEN LengthPoints ELSE 0)

MinTermLen == 3

\* re.findall(r"[a-z0-9]{3,}", s): the runs of at least three characters
RECURSIVE LongRuns(_)
LongRuns(runs) ==
    IF runs = <<>> THEN <<>>
    ELSE IF Len(Head(runs)) >= MinTermLen THEN <<Head(runs)>> \o LongRuns(Tail(runs))
    ELSE LongRuns(Tail(runs))
QueryToks(q) == Range(LongRuns(FindRuns(Lower(q), LowerSet \cup DigitSet, 1)))

\* _pick_sentences: the boost, one point for each query token found in s
Boost(q, s) == Cardinality({tok \in QueryToks(q) : Contains(Lower(s), tok)})

\* _pick_sentences: the candidates of one row, of all rows
RECURSIVE CandOfSents(_, _, _)
CandOfSents(sents, r, q) ==
    IF sents = <<>> THEN <<>>
    ELSE <<[score |-> _score_sentence(Head(sents)) + Boost(q, Head(sents)),
            sent |-> Head(sents), row |-> r]>>
         \o CandOfSents(Tail(sents), r, q)
RECURSIVE CandOf(_, _)
CandOf(rows, q) ==
    IF rows = <<>> THEN <<>>
    ELSE CandOfSents(_sentences(Head(rows).text), Head(rows), q) \o CandOf(Tail(rows), q)

\* cand.sort(key=lambda x: x["score"], reverse=True): equal scores keep their order
RECURSIVE InsertByScore(_, _)
InsertByScore(c, cs) ==
    IF cs = <<>> THEN <<c>>
    ELSE IF Head(cs).score < c.score THEN <<c>> \o cs
    ELSE <<Head(cs)>> \o InsertByScore(c, Tail(cs))
RECURSIVE SortByScore(_)
SortByScore(cs) ==
    IF cs = <<>> THEN <<>>
    ELSE InsertByScore(cs[Len(cs)], SortByScore(SubSeq(cs, 1, Len(cs) - 1)))

TopCand == 60
MaxSrcs == 8
Slots == [c \in Categories |->
            CASE c = "Definition/Criteria" -> 3
              [] c = "Causes/Complications" -> 3
              [] c = "Immediate" -> 6
              [] c = "Ongoing" -> 4]

\* the citation _pick_sentences makes of a row
Citation(r) == [title |-> r.title, org |-> r.org, published |-> r.published, url |-> r.url]

\* _pick_sentences: the loop over top that fills chosen and srcs
RECURSIVE Bucket(_, _)
Bucket(topc, acc) ==
    IF topc = <<>> THEN acc
    ELSE LET c == Head(topc)
             cat == _categorise(c.sent)
             takes == Len(acc.chosen[cat]) < Slots[cat]
             cites == takes /\ c.row.id \notin acc.used
         IN  Bucket(Tail(topc),
                    [cats |-> Append(acc.cats, [sent |-> c.sent, row |-> c.row.id,
                                                    cat |-> cat, taken |-> takes]),
                     chosen |-> IF takes
                                THEN [acc.chosen EXCEPT ![cat] = Append(@, c.sent)]
                                ELSE acc.chosen,
                     srcs |-> IF cites THEN Append(acc.srcs, Citation(c.row)) ELSE acc.srcs,
                     used |-> IF cites THEN acc.used \cup {c.row.id} ELSE acc.used])

\* whether scoring a sentence of these rows raises
Raises(rows) == \E i \in 1..Len(rows) :
                    \E j \in 1..Len(_sentences(rows[i].text)) :
                        _score_sentence(_sentences(rows[i].text)[j]) = NameError

\* _pick_sentences(rows, q): its locals when it returns, or that it raised
_pick_sentences(rows, q) ==
    IF Raises(rows) THEN [NoPick EXCEPT !.state = "raised"]
    ELSE LET cand == CandOf(rows, q)
             sorted == SortByScore(cand)
             b == Bucket(SubSeq(sorted, 1, Min(Len(sorted), TopCand)),
                         [cats |-> <<>>, chosen |-> [c \in Categories |-> <<>>],
                          srcs |-> <<>>, used |-> {}])
         IN  [state |-> "returned", cand |-> cand, sorted |-> sorted, cats |-> b.cats,
              chosen |-> b.chosen, srcs |-> SubSeq(b.srcs, 1, Min(Len(b.srcs), MaxSrcs))]

\* _render_answer(blocks): the html parts, one for each section that has
\* items, in the fixed order, or the "No matches found in your knowledge base."
\* paragraph when there is no part
SectionOrder == <<"Definition/Criteria", "Causes/Complications", "Immediate", "Ongoing">>
NoMatches == [paragraph |-> "<p>No matches found in your knowledge base.</p>",
              parts |-> <<>>]
RECURSIVE Sections(_, _)
Sections(blocks, i) ==
    IF i > Len(SectionOrder) THEN <<>>
    ELSE (IF blocks[SectionOrder[i]] = <<>> THEN <<>>
          ELSE <<[section |-> SectionOrder[i], items |-> blocks[SectionOrder[i]]]>>)
         \o Sections(blocks, i + 1)
\* _render_answer(blocks) with the "if not items: continue" and the final
\* "if html_parts" left out
_render_answer_mut(blocks) ==
    [paragraph |-> "",
     parts |-> [i \in 1..Len(SectionOrder) |->
                  [section |-> SectionOrder[i], items |-> blocks[SectionOrder[i]]]]]
_render_answer(blocks) ==
    IF Sections(blocks, 1) = <<>> THEN NoMatches
    ELSE [paragraph |-> "", parts |-> Sections(blocks, 1)]

\* _supa_search: terms = re.findall(r"[A-Za-z0-9]{3,}", q)
SearchTerms(q) == Range(LongRuns(FindRuns(q, LowerSet \cup UpperSet \cup DigitSet, 1)))

\* column ILIKE %t%
ILike(v, t) == Contains(Lower(v), Lower(t))

\* the rows a select returns: those of the table that pass, at most limit
RECURSIVE Select(_, _, _)
Select(table, passing, limit) ==
    IF table = <<>> \/ limit = 0 THEN <<>>
    ELSE IF Head(table) \in passing
         THEN <<Head(table)>> \o Select(Tail(table), passing, limit - 1)
         ELSE Select(Tail(table), passing, limit)

NoTermsLimit == 20

\* _supa_search(q, limit)
_supa_search(table, q, limit) ==
    IF SearchTerms(q) = {} THEN Select(table, Range(table), NoTermsLimit)
    ELSE Select(table,
                {r \in Range(table) :
                    \E t \in SearchTerms(q) :
                        ILike(r.title, t) \/ ILike(r.text, t) \/ ILike(r.org, t)},
                limit)

DefaultK == 12
MinLimit == 40
PerK == 6

\* answer(), the question q posted as JSON without k
FfmAnswer(q) ==
    /\ IF Strip(q) = ""
       THEN /\ resp' = [code |-> 400, ok |-> FALSE, error |-> "Empty question"]
            /\ found' = <<>> /\ pick' = NoPick
       ELSE /\ found' = _supa_search(guidelines, Strip(q), Max(MinLimit, DefaultK * PerK))
            /\ IF found' = <<>>
               THEN /\ pick' = NoPick
                    /\ resp' = [code |-> 200, ok |-> TRUE, answer |-> NoMatches,
                                sources |-> <<>>]
               ELSE /\ pick' = _pick_sentences(found', Strip(q))
                    /\ resp' = IF pick'.state = "raised"
                               THEN [code |-> 500, ok |-> FALSE, error |-> NameError]
                               ELSE [code |-> 200, ok |-> TRUE,
                                     answer |-> _render_answer(pick'.chosen),
                                     sources |-> pick'.srcs]
    /\ UNCHANGED <<guidelines, appVars, probe>>

\* datetime.fromisoformat(published).isoformat() for a date YYYY-MM-DD; any
\* other text here makes fromisoformat raise
IsIsoDate(d) ==
    /\ Len(d) = 10
    /\ \A i \in {1, 2, 3, 4, 6, 7, 9, 10} : Ch(d, i) \in DigitSet
    /\ Ch(d, 5) = "-" /\ Ch(d, 8) = "-"
IsoFormat(d) == d \o "T00:00:00"

MaxRows == 3

\* ingest_text(), the body data posted as JSON
IngestText(data) ==
    /\ Len(guidelines) < MaxRows
    /\ IF Strip(data.text) = ""
       THEN /\ resp' = [code |-> 400, ok |-> FALSE, error |-> "No text"]
            /\ UNCHANGED guidelines
       ELSE /\ guidelines' =
                 Append(guidelines,
                        [id |-> Len(guidelines) + 1, title |-> data.title, org |-> data.org,
                         url |-> data.url, text |-> Strip(data.text),
                         published |-> IF IsIsoDate(data.published)
                                       THEN IsoFormat(data.published) ELSE ""])
            /\ resp' = [code |-> 200, ok |-> TRUE, inserted |-> guidelines'[Len(guidelines')]]
    /\ UNCHANGED <<found, pick, appVars, probe>>

\* the bodies posted to /ingest_text and the questions posted to /answer
Hyperkalaemia ==
    "Definition: serum potassium > 6.0 mmol/L. Causes include renal failure. "
    \o "Immediate management: calcium gluconate 10% 10 mL IV over 10 minutes. "
    \o "Monitor ECG continuously."
Bodies ==
    {[title |-> "Hyperkalaemia Guideline", org |-> "Health Authority X", url |-> "",
      published |-> "2024-06-01", text |-> Hyperkalaemia],
     [title |-> "Oxygen", org |-> "", url |-> "https://example.org/o2",
      published |-> "soon", text |-> " Give O2.\n- titrate\n"],
     [title |-> "Sepsis", org |-> "", url |-> "", published |-> "",
      text |-> "Sepsis: Shock?  Yes."],
     [title |-> "Blank", org |-> "", url |-> "", published |-> "", text |-> " \n"]}
FfmQuestions == {"hyperkalaemia management", "O2 ?", "shock", " "}

FfmInit ==
    /\ FfmIdle
    /\ CORPUS = <<>>
    /\ DiskIdle /\ ReindexIdle /\ QueryIdle /\ ProbeIdle

FfmNext ==
    \/ \E data \in Bodies : IngestText(data)
    \/ \E q \in FfmQuestions : FfmAnswer(q)

SpecFfm == FfmInit /\ [][FfmNext]_vars

---------------------------------------------------------------------------
(* app.py: the score of a text and of the same text with one more           *)
(* occurrence of a query token                                              *)

ProbeTexts == {"dose", "sepsis im 5 mg", "Sepsis"}
ProbeQuestions == {"sepsis", "im sepsis?"}

\* text with tok inserted after its first n characters
InsertAt(text, tok, n) == SubSeq(text, 1, n) \o tok \o From(text, n + 1)

\* the score build_prompt gives a text: _score_doc(q_tokens, text[:8000])
ScoreOfText(q, text) == _score_doc(Tokenize(q), Prefix(text, ScoreWindow))

ProbeInit ==
    /\ \E t \in ProbeTexts, q \in ProbeQuestions :
         \E n \in 0..Len(t), k \in 1..Len(Tokenize(q)) :
            /\ Len(Tokenize(q)[k]) >= MinTokenLen
            /\ probe = [pc |-> "new", text |-> t, q |-> q, tok |-> Tokenize(q)[k],
                        at |-> n, s_old |-> 0, s_new |-> 0]
    /\ CORPUS = <<>>
    /\ DiskIdle /\ ReindexIdle /\ QueryIdle /\ FfmIdle

ScoreOld ==
    /\ probe.pc = "new"
    /\ probe' = [probe EXCEPT !.pc = "old", !.s_old = ScoreOfText(probe.q, probe.text)]
    /\ UNCHANGED <<appVars, ffmVars>>

ScoreNew ==
    /\ probe.pc = "old"
    /\ probe' = [probe EXCEPT
                   !.pc = "both",
                   !.s_new = ScoreOfText(probe.q, InsertAt(probe.text, probe.tok, probe.at))]
    /\ UNCHANGED <<appVars, ffmVars>>

ProbeNext == ScoreOld \/ ScoreNew

SpecProbe == ProbeInit /\ [][ProbeNext]_vars

---------------------------------------------------------------------------
(* scripts/build_index.py: chunk_text applied to one text                   *)

\* re.split(r"(?<=[\\.!?])\\s+", s): in the raw string the pattern is a
\* lookbehind for one of \ . ! ? and then a backslash and one or more "s"
SplitBehind == {"\\", ".", "!", "?"}
SplitStarts(s, i) ==
    {k \in Max(i, 2)..(Len(s) - 1) :
        Ch(s, k) = "\\" /\ Ch(s, k + 1) = "s" /\ Ch(s, k - 1) \in SplitBehind}
RECURSIVE SplitSents(_, _)
SplitSents(s, i) ==
    IF SplitStarts(s, i) = {} THEN <<From(s, i)>>
    ELSE LET k == MinOf(SplitStarts(s, i))
         IN  <<SubSeq(s, i, k - 1)>> \o SplitSents(s, FirstNotIn(s, {"s"}, k + 1))

\* " ".join(cur)
RECURSIVE JoinSpace(_)
JoinSpace(cur) ==
    IF cur = <<>> THEN ""
    ELSE IF Len(cur) = 1 THEN cur[1]
    ELSE cur[1] \o " " \o JoinSpace(Tail(cur))

\* chunk_text: the loop over sents, then the last chunk
RECURSIVE ChunkLoop(_, _, _, _, _)
ChunkLoop(sents, max_chars, out, cur, cur_len) ==
    IF sents = <<>>
    THEN IF cur # <<>> THEN Append(out, JoinSpace(cur)) ELSE out
    ELSE LET L == Len(Head(sents))
         IN  IF cur # <<>> /\ cur_len + L > max_chars
             THEN ChunkLoop(Tail(sents), max_chars, Append(out, JoinSpace(cur)),
                            <<Head(sents)>>, L)
             ELSE ChunkLoop(Tail(sents), max_chars, out, Append(cur, Head(sents)),
                            cur_len + L)

\* chunk_text(txt, max_chars)
chunk_text(txt, max_chars) == ChunkLoop(SplitSents(Strip(txt), 1), max_chars, <<>>, <<>>, 0)

DefaultMaxChars == 1600
IngestMaxChars == 2000

\* the texts and the limits chunk_text is applied to
ChunkTexts ==
    {"", " \n ", "Go.", "A. B. C.", "Give oxygen. Reassess the airway? Call for help!",
     "no stop at all", "a.\\sb", "a.\\sssb.\\sc", "a\\sb", "a.\\s", "\\\\sx.\\s\\sy",
     " K 6.5 mmol/L.  Give calcium.\tRepeat ECG. "}
ChunkLimits == {0, 1, 2, 5, 12, 30, DefaultMaxChars, IngestMaxChars}

ChunkInit ==
    /\ \E t \in ChunkTexts, m \in ChunkLimits :
          probe = [pc |-> "text", txt |-> t, max_chars |-> m, out |-> <<>>]
    /\ CORPUS = <<>>
    /\ DiskIdle /\ ReindexIdle /\ QueryIdle /\ FfmIdle

ChunkText ==
    /\ probe.pc = "text"
    /\ probe' = [probe EXCEPT !.pc = "chunked",
                              !.out = chunk_text(probe.txt, probe.max_chars)]
    /\ UNCHANGED <<appVars, ffmVars>>

ChunkNext == ChunkText

SpecChunk == ChunkInit /\ [][ChunkNext]_vars

---------------------------------------------------------------------------
(* scripts/build_index.py: main builds the index from the list of sources   *)

\* how many entries sources.yml holds
MaxSources == 2

\* what the servers answer: the pages of the PDF (what extract_text gives for
\* each), no pages for a URL that r.raise_for_status() rejects
SepsisUrl == "https://x.org/sepsis.pdf"
AsthmaUrl == "https://x.org/asthma.pdf"
GoneUrl == "https://x.org/gone.pdf"
PagesAt(url) ==
    CASE url = SepsisUrl -> <<"Sepsis:  start\tfluids.\\s Reassess.", "Page two.">>
      [] url = AsthmaUrl -> <<"Asthma. Salbutamol neb.">>
      [] OTHER -> <<>>
Served == {SepsisUrl, AsthmaUrl}

\* an entry of sources.yml; "" stands for a key that is absent or empty
SourceUrls == {"", SepsisUrl, AsthmaUrl, GoneUrl}
SourceTitles == {"", "Sepsis", "Asthma"}
SourceEntries == [title : SourceTitles, url : SourceUrls]

\* hashlib.sha1(title.encode("utf-8")).hexdigest()[:8], for the titles that occur
Sha1Hex8(title) ==
    CASE title = "Sepsis" -> "186238cc"
      [] title = "Asthma" -> "2dd5e43a"
      [] title = SepsisUrl -> "13cb121f"
      [] title = AsthmaUrl -> "20eb771b"
      [] title = GoneUrl -> "8b25104a"

\* download: name = url.split("/")[-1] or "file.pdf", ".pdf" added when missing
DownloadName(url) ==
    LET name == IF Name(url) = "" THEN "file.pdf" ELSE Name(url)
    IN  IF Len(name) >= 4 /\ Lower(From(name, Len(name) - 3)) = ".pdf" THEN name
        ELSE name \o ".pdf"

\* re.sub(r"[ \\t]+", " ", t): in the raw string the class holds the blank,
\* the backslash and the letter t; each run of them becomes one blank
RunChars == {" ", "\\", "t"}
RECURSIVE SubRuns(_, _)
SubRuns(t, i) ==
    LET k == FirstIn(t, RunChars, i)
    IN  IF k > Len(t) THEN From(t, i)
        ELSE SubSeq(t, i, k - 1) \o " " \o SubRuns(t, FirstNotIn(t, RunChars, k))

\* "\\n".join(pages): the pages joined by a backslash and the letter n
RECURSIVE JoinPages(_)
JoinPages(pages) ==
    IF pages = <<>> THEN ""
    ELSE IF Len(pages) = 1 THEN pages[1]
    ELSE pages[1] \o "\\n" \o JoinPages(Tail(pages))

pdf_text(pages) == JoinPages([i \in 1..Len(pages) |-> SubRuns(pages[i], 1)])

\* ingest: the documents w.add_document adds, one for each chunk; add_document
\* appends, it does not look for a document of the same chunk_id. org and
\* published are stored as given and are left out here.
ingest(pages, title) ==
    LET chunks == chunk_text(pdf_text(pages), IngestMaxChars)
        basehash == Sha1Hex8(title)
    IN  [i \in 1..Len(chunks) |->
            [chunk_id |-> basehash \o ":" \o ToString(i - 1), title |-> title,
             text |-> chunks[i]]]

\* what indexdir may hold from an earlier build
StaleIndex == <<[chunk_id |-> "186238cc:0", title |-> "Sepsis", text |-> "old"]>>

BuildInit ==
    /\ \E n \in 0..MaxSources, stale \in {<<>>, StaleIndex} :
          \E srcs \in [1..n -> SourceEntries] :
             probe = [pc |-> "main", sources |-> srcs, k |-> 1, index |-> stale,
                      dl |-> {}, total_chunks |-> 0]
    /\ CORPUS = <<>>
    /\ DiskIdle /\ ReindexIdle /\ QueryIdle /\ FfmIdle

\* main, up to the loop: no sources ends with exit status 1, else indexdir is
\* wiped and a new index is created
MainOpen ==
    /\ probe.pc = "main"
    /\ probe' = IF probe.sources = <<>> THEN [probe EXCEPT !.pc = "exit1"]
                ELSE [probe EXCEPT !.pc = "loop", !.index = <<>>]
    /\ UNCHANGED <<appVars, ffmVars>>

\* for s in sources: an entry without url is skipped; download raises for a
\* URL the server rejects; else the file is written and ingested
MainSource ==
    /\ probe.pc = "loop"
    /\ probe.k <= Len(probe.sources)
    /\ LET s == probe.sources[probe.k]
           url == s.url
           title == IF s.title # "" THEN s.title ELSE url
           docs == ingest(PagesAt(url), title)
       IN  probe' = IF url = "" THEN [probe EXCEPT !.k = probe.k + 1]
                    ELSE IF url \notin Served THEN [probe EXCEPT !.pc = "raised"]
                    ELSE [probe EXCEPT !.k = probe.k + 1,
                                       !.dl = @ \cup {DownloadName(url)},
                                       !.index = @ \o docs,
                                       !.total_chunks = @ + Len(docs)]
    /\ UNCHANGED <<appVars, ffmVars>>

\* after the last source main prints the total and returns
MainBuilt ==
    /\ probe.pc = "loop"
    /\ probe.k > Len(probe.sources)
    /\ probe' = [probe EXCEPT !.pc = "built"]
    /\ UNCHANGED <<appVars, ffmVars>>

BuildNext == MainOpen \/ MainSource \/ MainBuilt

SpecBuild == BuildInit /\ [][BuildNext]_vars

---------------------------------------------------------------------------
(* General Medicine/scripts/build_index.py: chunk_text over page rows       *)

CHUNK_SIZE == 1200
OVERLAP == 200

\* how many page rows chunk_text is given, and how many chunks are followed
MaxPages == 2
MaxChunks == 4

\* len(r["text"].strip()) of a page row: blank, short, around CHUNK_SIZE, long
PageLengths == {0, 1, OVERLAP, CHUNK_SIZE - 1, CHUNK_SIZE, CHUNK_SIZE + 1,
                2 * CHUNK_SIZE + 100}

WindowInit ==
    /\ \E n \in 0..MaxPages : \E lens \in [1..n -> PageLengths] :
          probe = [pc |-> "for", rows |-> lens, r |-> 0, start |-> 0, chunks |-> <<>>]
    /\ CORPUS = <<>>
    /\ DiskIdle /\ ReindexIdle /\ QueryIdle /\ FfmIdle

\* for r in rows: t = r["text"].strip(); if not t: continue; start = 0;
\* after the last row: return chunks
ForRow ==
    /\ probe.pc = "for"
    /\ probe' = IF probe.r = Len(probe.rows) THEN [probe EXCEPT !.pc = "returned"]
                ELSE IF probe.rows[probe.r + 1] = 0 THEN [probe EXCEPT !.r = probe.r + 1]
                ELSE [probe EXCEPT !.r = probe.r + 1, !.start = 0, !.pc = "while"]
    /\ UNCHANGED <<appVars, ffmVars>>

\* while start < len(t): the chunk t[start:end] is appended, start moves to
\* end - OVERLAP, not below 0; a chunk is kept as the bounds of its slice
WhileWindow ==
    /\ probe.pc = "while"
    /\ Len(probe.chunks) < MaxChunks
    /\ LET len_t == probe.rows[probe.r]
           end == Min(len_t, probe.start + CHUNK_SIZE)
       IN  probe' = IF probe.start < len_t
                    THEN [probe EXCEPT
                            !.chunks = Append(@, [row |-> probe.r, start |-> probe.start,
                                                  end |-> end]),
                            !.start = IF end - OVERLAP < 0 THEN 0 ELSE end - OVERLAP]
                    ELSE [probe EXCEPT !.pc = "for"]
    /\ UNCHANGED <<appVars, ffmVars>>

WindowNext == ForRow \/ WhileWindow

SpecWindow == WindowInit /\ [][WindowNext]_vars

---------------------------------------------------------------------------
(* ffm_flask2.py: _sentences applied to one line of a guideline             *)

\* lines as guidelines have them: a list marker, or none, and a body
LineMarkers == {"", "- ", "1. ", "2) ", "10. ", "3 ", "( "}
LineBodies ==
    {"Give oxygen now.", "Give oxygen. Reassess.", "Check airway? Then call!",
     "titrate to effect", "Adrenaline 0.5 mg IM. Repeat.", "A long line without a stop",
     "Is it sepsis? Yes. Treat!", "Monitor ECG. Admit."}

SentInit ==
    /\ \E m \in LineMarkers, b \in LineBodies :
          probe = [pc |-> "line", txt |-> m \o b, out |-> <<>>]
    /\ CORPUS = <<>>
    /\ DiskIdle /\ ReindexIdle /\ QueryIdle /\ FfmIdle

Sentences ==
    /\ probe.pc = "line"
    /\ probe' = [probe EXCEPT !.pc = "split", !.out = _sentences(probe.txt)]
    /\ UNCHANGED <<appVars, ffmVars>>

SentNext == Sentences

SpecSent == SentInit /\ [][SentNext]_vars

---------------------------------------------------------------------------
(* ffm_flask2.py: _categorise applied to one sentence                       *)

\* sentences made of phrases, each phrase in the vocabulary of one pattern
\* or of none
Phrases == <<"criteria for it", "risk of harm", "shock state", "urgent care",
             "give 5 mg", "monitor them", "the patient">>
RECURSIVE Sentence(_, _)
Sentence(picked, i) ==
    IF i > Len(Phrases) THEN ""
    ELSE IF i \in picked
         THEN LET rest == Sentence(picked, i + 1)
              IN  IF rest = "" THEN Phrases[i] ELSE Phrases[i] \o " " \o rest
         ELSE Sentence(picked, i + 1)
CatSentences == {Sentence(picked, 1) : picked \in (SUBSET (1..Len(Phrases))) \ {{}}}

CatInit ==
    /\ \E s \in CatSentences : probe = [pc |-> "sentence", s |-> s, cat |-> ""]
    /\ CORPUS = <<>>
    /\ DiskIdle /\ ReindexIdle /\ QueryIdle /\ FfmIdle

Categorise ==
    /\ probe.pc = "sentence"
    /\ probe' = [probe EXCEPT !.pc = "categorised", !.cat = _categorise(probe.s)]
    /\ UNCHANGED <<appVars, ffmVars>>

CatNext == Categorise

SpecCat == CatInit /\ [][CatNext]_vars

---------------------------------------------------------------------------
(* Claims                                                                  *)

\* C1: a query served while a reindex runs scores either the whole corpus as
\* it was before the reindex started or the whole corpus as it is after the
\* reindex finished, and never fails because CORPUS changed under its loop.
C1_QuerySeesOldOrNew ==
    /\ qpc # "error"
    /\ qpc = "done" => AsSet(seen) \in live

\* C2: when a rebuild fails before it completes, the index that queries see
\* afterwards is the index that was live before the rebuild started: none of
\* its entries has been removed or replaced.
C2_FailedRebuildKeepsIndex ==
    rpc = "failed" => AsSet(before) \subseteq AsSet(CORPUS)

\* C4: two /reindex calls in a row, the directory touched by nothing else in
\* between, return the same files_indexed and leave the same CORPUS.
C4_ReindexIdempotent ==
    Len(responses) = 2 => responses[1] = responses[2]

\* the content of a row: what the body posted to /ingest_text gave it
Content(r) == [title |-> r.title, org |-> r.org, url |-> r.url, text |-> r.text,
               published |-> r.published]

\* C3: ingesting the same body twice leaves the rows that ingesting it once
\* leaves: no two rows of guidelines hold the same content.
C3_SameBodyAddsNoRow ==
    \A i, j \in 1..Len(guidelines) :
        Content(guidelines[i]) = Content(guidelines[j]) => i = j

\* the query tokens that count: those of length >= 3
CountedTokens == {q_tokens[i] : i \in {j \in 1..Len(q_tokens) : Len(q_tokens[j]) >= 3}}

\* C5: a query without any token of length >= 3 selects no corpus document.
C5_EmptyTokensSelectNothing ==
    (qpc = "done" /\ CountedTokens = {}) => top = <<>>

\* C5, in ffm_flask2.py: a question without any run of three letters or
\* digits makes _supa_search return no rows.
C5_EmptyTermsFindNoRows ==
    [][\A q \in FfmQuestions :
          (FfmAnswer(q) /\ SearchTerms(Strip(q)) = {}) => found' = <<>>]_vars

\* the score of a corpus entry for the tokens of the served question
EntryScore(e) == _score_doc(q_tokens, Prefix(e.text, 8000))
Positive == {i \in 1..Len(CORPUS) : EntryScore(CORPUS[i]) > 0}

\* C6: the ranked list holds only corpus entries that score above zero, at
\* most 5 of them, and it is empty (the "no local documents matched" context
\* is used) exactly when no corpus entry scores above zero.
C6_RankedPositiveAtMostFive ==
    qpc = "done" =>
        /\ \A i \in 1..Len(top) :
              /\ top[i][1] > 0
              /\ \E j \in Positive :
                    /\ CORPUS[j].path = top[i][2]
                    /\ EntryScore(CORPUS[j]) = top[i][1]
        /\ Len(top) <= 5
        /\ (top = <<>>) <=> (Positive = {})
        /\ (context = "nomatch") <=> (Positive = {})

\* C6 witness: more than five entries score above zero and five are kept
C6_Witness ==
    qpc = "done" /\ Cardinality(Positive) > 5 /\ Len(top) = 5 /\ context = "blocks"

\* C23: every corpus document that build_prompt places in the context holds,
\* within its first 8000 characters, at least one query token of length >= 3;
\* a document in which no query token occurs is never selected, whatever cue
\* words it contains.
C23_SelectedHoldsQueryToken ==
    qpc = "done" =>
        \A i \in 1..Len(top) : \A j \in 1..Len(CORPUS) :
            CORPUS[j].path = top[i][2] =>
                \E t \in CountedTokens :
                    Contains(Lower(Prefix(CORPUS[j].text, ScoreWindow)), t)

\* the position of a path in CORPUS: its ingestion order
Ingested(path) == IndexOfPath(CORPUS, path, 1)

\* C7: the scored entries are ordered by score descending, entries of equal
\* score in ingestion order, and top is the first five of that order.
C7_TiesKeepIngestionOrder ==
    qpc = "done" =>
        /\ \A i, j \in 1..Len(scored) :
              i < j => \/ scored[i][1] > scored[j][1]
                       \/ /\ scored[i][1] = scored[j][1]
                          /\ Ingested(scored[i][2]) < Ingested(scored[j][2])
        /\ top = SubSeq(scored, 1, Min(Len(scored), 5))

\* C8: one more occurrence of a query token of length >= 3, inserted anywhere
\* in a text, never lowers the score build_prompt gives the text.
C8_InsertNeverLowersScore ==
    probe.pc = "both" => probe.s_new >= probe.s_old

\* what a sentence matches
MatchesCriteria(s) == SearchWords(Lower(s), CriteriaWords)
MatchesCauses(s) == SearchWords(Lower(s), CausesWords) \/ SearchWords(Lower(s), CompWords)
MatchesUrgency(s) == SearchWords(Lower(s), ImmediateWords) \/ SearchDose(Lower(s))
MatchesFollow(s) == SearchWords(Lower(s), FollowWords)

\* C9: _categorise applies the order Definition/Criteria, Causes/Complications,
\* Immediate, default Ongoing: definition vocabulary wins over urgency and
\* dosing cues, causal vocabulary without definition vocabulary wins over
\* them too, and a sentence that matches no pattern is Ongoing.
C9_CategoryPriority ==
    probe.pc = "categorised" =>
        /\ MatchesCriteria(probe.s) => probe.cat = "Definition/Criteria"
        /\ (~MatchesCriteria(probe.s) /\ MatchesCauses(probe.s))
              => probe.cat = "Causes/Complications"
        /\ (~MatchesCriteria(probe.s) /\ ~MatchesCauses(probe.s)
              /\ ~MatchesUrgency(probe.s) /\ ~MatchesFollow(probe.s))
              => probe.cat = "Ongoing"

\* the sentences _categorise was called on for the row with this id, in order
RECURSIVE CatsOfRow(_, _)
CatsOfRow(cats, id) ==
    IF cats = <<>> THEN <<>>
    ELSE (IF Head(cats).row = id THEN <<Head(cats).sent>> ELSE <<>>)
         \o CatsOfRow(Tail(cats), id)

\* C10: every piece that splitting a retrieved row's text produces is given
\* one category by _categorise, whatever its length: when _pick_sentences
\* returns, the pieces of each row are the sentences that were categorised.
C10_EveryPieceCategorised ==
    pick.state = "returned" =>
        \A i \in 1..Len(found) :
            /\ Len(CatsOfRow(pick.cats, found[i].id)) = Len(Pieces(found[i].text))
            /\ Range(CatsOfRow(pick.cats, found[i].id)) = Range(Pieces(found[i].text))

\* the ends of sentences inside a chunk: a ".", "?" or "!" followed by
\* whitespace and more text
SentenceEnds(c) ==
    {i \in 1..(Len(c) - 1) : Ch(c, i) \in {".", "?", "!"} /\ IsSpace(Ch(c, i + 1))}
OneSentence(c) == SentenceEnds(Strip(c)) = {}

\* C16: chunk_text returns no chunk longer than max_chars, except a chunk that
\* is one single sentence which alone exceeds max_chars.
C16_ChunksWithinMaxChars ==
    probe.pc = "chunked" =>
        \A i \in 1..Len(probe.out) :
            Len(probe.out[i]) <= probe.max_chars \/ OneSentence(probe.out[i])

\* C17: chunk_text never returns an empty chunk, and for empty or
\* whitespace-only input it returns the empty sequence.
C17_NoEmptyChunk ==
    probe.pc = "chunked" =>
        /\ \A i \in 1..Len(probe.out) : probe.out[i] # ""
        /\ Strip(probe.txt) = "" => probe.out = <<>>

\* C21: chunk_text terminates for every list of page rows: the window loop,
\* whose next window depends on start alone, never takes the window of one
\* page twice, so it reaches the end of the text after finitely many chunks.
C21_WindowLoopTerminates ==
    \A i, j \in 1..Len(probe.chunks) :
        (probe.chunks[i].row = probe.chunks[j].row
           /\ probe.chunks[i].start = probe.chunks[j].start) => i = j

\* C24: after any run of main every chunk of the index has a chunk_id that no
\* other chunk has, and a chunk_id identifies one source document, also when
\* two sources have the same title or one source is listed twice.
C24_ChunkIdsUnique ==
    probe.pc \in {"built", "raised"} =>
        \A i, j \in 1..Len(probe.index) :
            probe.index[i].chunk_id = probe.index[j].chunk_id => i = j

\* the last request served was /answer
LastWasAnswer ==
    /\ resp.code # 0
    /\ "inserted" \notin DOMAIN resp
    /\ "error" \in DOMAIN resp => resp.error # "No text"

\* the last request served was /answer, with a question that is not blank
AnswerServed == LastWasAnswer /\ resp.code # 400

\* the sentences that survive _sentences, of all rows
RECURSIVE AllSentences(_)
AllSentences(rows) ==
    IF rows = <<>> THEN <<>>
    ELSE _sentences(Head(rows).text) \o AllSentences(Tail(rows))

\* C22: for a question that is not blank whose search returns a row with at
\* least one sentence, /answer completes with ok=true, an answer and a sources
\* list, and _score_sentence gives an integer for every sentence it scores.
C22_AnswerCompletesOk ==
    (AnswerServed /\ AllSentences(found) # <<>>) =>
        /\ resp.code = 200 /\ resp.ok
        /\ {"answer", "sources"} \subseteq DOMAIN resp
        /\ \A i \in 1..Len(AllSentences(found)) :
              _score_sentence(AllSentences(found)[i]) \in Int

\* C11: for every set of retrieved rows and every query _pick_sentences gives
\* sections within their caps: at most 3 sentences in Definition/Criteria, 3
\* in Causes/Complications, 6 in Immediate, 4 in Ongoing, each sentence of at
\* most 500 characters.
C11_SectionsWithinCaps ==
    (AnswerServed /\ found # <<>>) =>
        /\ pick.state = "returned"
        /\ \A c \in Categories :
              /\ Len(pick.chosen[c]) <= Slots[c]
              /\ \A i \in 1..Len(pick.chosen[c]) : Len(pick.chosen[c][i]) <= 500

\* the sentences of one category among candidates, in the candidates' order
RECURSIVE OfCategory(_, _)
OfCategory(cs, c) ==
    IF cs = <<>> THEN <<>>
    ELSE (IF _categorise(Head(cs).sent) = c THEN <<Head(cs).sent>> ELSE <<>>)
         \o OfCategory(Tail(cs), c)
FirstN(xs, n) == SubSeq(xs, 1, Min(Len(xs), n))

\* C12: each section is the first N (3/3/6/4) sentences of its category among
\* ALL candidates of all retrieved rows, sorted by score descending, ties in
\* first-seen order.
C12_SectionIsTopNOfCategory ==
    (AnswerServed /\ found # <<>>) =>
        /\ pick.state = "returned"
        /\ \A c \in Categories :
              pick.chosen[c] = FirstN(OfCategory(SortByScore(pick.cand), c), Slots[c])

\* the ids of the rows of the chosen sentences, in selection order, each once
RECURSIVE FirstChosenRows(_, _)
FirstChosenRows(cats, seenIds) ==
    IF cats = <<>> THEN <<>>
    ELSE IF Head(cats).taken /\ Head(cats).row \notin seenIds
         THEN <<Head(cats).row>> \o FirstChosenRows(Tail(cats), seenIds \cup {Head(cats).row})
         ELSE FirstChosenRows(Tail(cats), seenIds)
RowOfId(rows, id) == CHOOSE r \in Range(rows) : r.id = id

\* C13: the sources list holds exactly one citation for each row that has a
\* chosen sentence, none for any other row, in the order of each row's first
\* chosen sentence.
C13_OneCitationPerChosenRow ==
    (AnswerServed /\ found # <<>>) =>
        /\ pick.state = "returned"
        /\ LET ids == FirstChosenRows(pick.cats, {})
           IN  pick.srcs = [i \in 1..Len(ids) |-> Citation(RowOfId(found, ids[i]))]

HasTwice(xs) == \E i, j \in 1..Len(xs) : i < j /\ xs[i] = xs[j]

\* C14: no section returned by _pick_sentences holds the same sentence twice,
\* also when the sentence occurs in two retrieved rows or twice in one row.
C14_NoSentenceTwice ==
    (AnswerServed /\ HasTwice(AllSentences(found))) =>
        /\ pick.state = "returned"
        /\ \A c \in Categories : ~HasTwice(pick.chosen[c])

\* the position of the first candidate whose sentence starts with pre, 0 if none
StartsWith(x, pre) == Len(x) >= Len(pre) /\ Prefix(x, Len(pre)) = pre
PosOf(cs, pre) ==
    LET S == {i \in 1..Len(cs) : StartsWith(cs[i].sent, pre)}
    IN  IF S = {} THEN 0 ELSE MinOf(S)
InSection(c, pre) == \E i \in 1..Len(pick.chosen[c]) : StartsWith(pick.chosen[c][i], pre)

\* a line that begins with a bullet marker ("- ") or a numbered-list marker
\* (digits, then "." or ")", then a blank)
ListMarker(ln) ==
    \/ StartsWith(ln, "- ")
    \/ LET e == FirstNotIn(ln, DigitSet, 1)
       IN  e > 1 /\ e < Len(ln) /\ Ch(ln, e) \in {".", ")"} /\ Ch(ln, e + 1) = " "

\* C19: _sentences returns a line that begins with a bullet marker or a
\* numbered-list marker as one piece, never split at a ".", "?" or "!" in it.
C19_MarkerLinesAtomic ==
    (probe.pc = "split" /\ ListMarker(probe.txt)) => probe.out = <<probe.txt>>

\* the documents the user submitted: the files of the supported text and
\* document types that the user put under clinical_data/
Submitted == {p \in UserPaths(fs) : Lower(Suffix(p)) \in {".md", ".txt", ".pdf", ".docx"}}
IndexedIn(r, p) == \E e \in r.corpus : e[1] = p

\* C20: a document is never dropped silently: when /reindex returns its plain
\* success result, every submitted document is in the index it reports.
C20_NoSilentDrop ==
    responses # <<>> =>
        \A p \in Submitted : IndexedIn(responses[Len(responses)], p)

\* C18: with the one row "Hyperkalaemia Guideline" (a definition, a causes, a
\* dosing and a monitoring sentence) a query that matches it gets a bundle:
\* the dosing sentence in Immediate and ranked above the monitoring sentence,
\* the definition sentence in Definition/Criteria, one citation, for that row.
C18_HyperkalaemiaBundle ==
    (AnswerServed /\ Len(found) = 1 /\ found[1].text = Hyperkalaemia) =>
        /\ resp.code = 200 /\ resp.ok
        /\ pick.state = "returned"
        /\ InSection("Immediate", "Immediate management: calcium gluconate")
        /\ PosOf(pick.sorted, "Immediate management: calcium gluconate")
              < PosOf(pick.sorted, "Monitor ECG")
        /\ InSection("Definition/Criteria", "Definition: serum potassium")
        /\ Len(resp.sources) = 1
        /\ resp.sources[1].title = "Hyperkalaemia Guideline"

NothingChosen == pick.state = "returned" /\ \A c \in Categories : pick.chosen[c] = <<>>
NoMatchResponse == [code |-> 200, ok |-> TRUE, answer |-> NoMatches, sources |-> <<>>]

===========================================================================
